---- MODULE Spec2Model ----
(***************************************************************************)
(* Model of the notes service: src/main.py (FastAPI handlers, token issue  *)
(* and validation) over src/db.py (users, registry and notes tables behind *)
(* one process-wide SQLAlchemy session).                                   *)
(*                                                                         *)
(* One action per HTTP handler.  A handler runs its dependency             *)
(* get_current_user first, then its body, then the db function it calls;   *)
(* all of that is one step.  A handler's inputs are its parameters, and    *)
(* the response to the latest request is kept in resp.                     *)
(*                                                                         *)
(* Time is counted in ticks of 15 minutes.  now is the UTC clock; the      *)
(* server's local wall clock, which datetime.now() reads, is now + tz.     *)
(*                                                                         *)
(* Spec and SpecAuth handle each request as it arrives; SpecConc keeps the *)
(* requests of two clients waiting at the server and handles them in any   *)
(* order; SpecFrame has two notes stored at a time; SpecDrift starts over  *)
(* a store with a registry row whose note is missing.                      *)
(***************************************************************************)
EXTENDS Integers, Sequences, FiniteSets, TLC

VARIABLES users,     \* users table: username -> stored password hash
          notes,     \* notes table: uuid -> row, for the rows that exist
          registry,  \* registry table: <<username, uuid>> -> number of such rows
          session,   \* the shared Session db: "active" or "inactive"
          now,       \* UTC time
          tz,        \* UTC offset of the server's local time zone
          held,      \* username -> <<token, time of issue>> of that user's last login
          resp,      \* the response to the latest request
          pending    \* username -> the request of that user's client that the
                     \* server has received and not yet handled

vars == <<users, notes, registry, session, now, tz, held, resp, pending>>

\* ---------------------------------------------------------------- domains
Usernames == {"alice", "bob"}
Passwords == {"pw1", "pw2"}
\* The values uuid4() returns.
UUIDs == {"n1", "n2"}
\* The order in which the store returns rows when a query names none.
UUIDOrder == <<"n1", "n2">>
Strings == {"", "A"}
\* Python's None, for an absent title, body, user or id.
None == "<None>"
\* Offsets of the local time zone from UTC, in ticks: UTC-1h, UTC, UTC+1h.
UTCOffsets == {-4, 0, 4}
\* Last tick of the clock.
MaxTime == 2
\* Number of rows of an uploaded CSV file.
MaxRows == 3

\* timedelta(minutes=15), in ticks.
TOKEN_EXPIRE == 1
SECRET_KEY == "SECRET_KEY"
OtherKey == "another key"
\* A string that is no token, and the absence of an Authorization header.
Malformed == [sub |-> None, exp |-> 0, key |-> "malformed"]
NoToken == [sub |-> None, exp |-> 0, key |-> "no token"]

Min(a, b) == IF a < b THEN a ELSE b

\* datetime.now(): the naive local wall clock at UTC time t.
datetime_now(t) == t + tz

\* ----------------------------------------------------------- db.py tables
\* Note(uuid, created_at, updated_at, title, body)
NoteRow(uuid, created_at, updated_at, title, body) ==
    [uuid |-> uuid, created_at |-> created_at, updated_at |-> updated_at,
     title |-> title, body |-> body]

\* Registry(username, uuid); the autoincrement id plays no part and is left
\* out, so the table is a bag of <<username, uuid>> pairs.
RegistryRow(username, uuid) == <<username, uuid>>
RegistryRows(uuid) == {r \in DOMAIN registry : r[2] = uuid /\ registry[r] > 0}

\* query(...).first(): a sequence of at most one row stands for row-or-None.
_get_user(username) ==
    IF username \in DOMAIN users THEN <<username>> ELSE <<>>

_get_note(note_id) ==
    IF note_id \in DOMAIN notes THEN <<notes[note_id]>> ELSE <<>>

\* ------------------------------------------------------ passwords, tokens
\* pwd_context.hash: a sha256_crypt hash, never the raw password.
get_hashed_password(password) == <<"sha256_crypt", password>>

verify_password(password, hashed_password) ==
    hashed_password = get_hashed_password(password)

\* authenticate_user: the user, or False (here <<>>).
authenticate_user(username, password) ==
    IF _get_user(username) = <<>> THEN <<>>
    ELSE IF ~verify_password(password, users[username]) THEN <<>>
    ELSE <<username>>

\* jose's jwt.encode: a datetime claim is converted with
\* timegm(exp.utctimetuple()), which reads a naive datetime as UTC.
jwt_encode(sub, exp, key) == [sub |-> sub, exp |-> exp, key |-> key]

\* jwt.decode that does not verify the signature.
jwt_decode_unverified(token, key, t) ==
    IF token.exp < t THEN <<>>
    ELSE <<[sub |-> token.sub]>>

\* jose's jwt.decode at UTC time t: <<payload>>, or <<>> when it raises
\* (bad format, signature made with another key, exp < utcnow).
jwt_decode(token, key, t) ==
    IF token.key # key THEN <<>>
    ELSE IF token.exp < t THEN <<>>
    ELSE <<[sub |-> token.sub]>>

\* The dependency get_current_user: 401 before any access to the store
\* when the token does not decode; then _get_user on the shared session.
get_current_user(token) ==
    LET payload == jwt_decode(token, SECRET_KEY, now) IN
    IF payload = <<>> \/ payload[1].sub = None
    THEN [status |-> 401, user |-> None]
    ELSE IF session # "active"
    THEN [status |-> 500, user |-> None]
    ELSE IF _get_user(payload[1].sub) # <<>>
    THEN [status |-> 200, user |-> payload[1].sub]
    ELSE [status |-> 401, user |-> None]

\* The tokens a client can send: the one its last login gave it, a token
\* signed with another key, and a string that is no token.
Forged == jwt_encode("alice", MaxTime + TOKEN_EXPIRE, OtherKey)
Tokens == {held[u][1] : u \in DOMAIN held} \cup {Forged, Malformed}

\* The latest request and its response: the handler, the status code, the
\* token sent, the user the request was handled for (for register and
\* login, the username sent), the note id it names or returns, the title
\* and body sent with a request that was carried out, and the notes in the
\* response.
NoReq == [title |-> None, body |-> None]
\* A client with no request at the server.
Idle == [op |-> "idle", id |-> None]
Response(op, status, token, user, id, req, out) ==
    [op |-> op, status |-> status, token |-> token, user |-> user, id |-> id,
     req |-> req, out |-> out]

\* ------------------------------------------------------------ db.py writes
\* _create_user: the users table after the commit.
_create_user(username, password) == (username :> password) @@ users

\* _get_all_notes without the filter on the username.
_get_all_notes_unfiltered(user) ==
    SelectSeq([i \in 1..Len(UUIDOrder) |-> _get_note(UUIDOrder[i])],
              LAMBDA found : found # <<>>)

\* _get_all_notes: one element per registry row of the user, each the
\* result of the note query for that row's uuid (<<row>>, or <<>> for None).
RECURSIVE NotesOf(_, _)
NotesOf(user, i) ==
    IF i > Len(UUIDOrder) THEN <<>>
    ELSE [k \in 1..registry[RegistryRow(user, UUIDOrder[i])] |-> _get_note(UUIDOrder[i])]
         \o NotesOf(user, i + 1)

_get_all_notes(user) == NotesOf(user, 1)

\* _post_note that commits the note row without its registry row.
_post_note_registry_lost(user, note) == registry

\* _post_note: the notes and registry tables after the single commit.
_post_note_notes(note) == (note.uuid :> note) @@ notes
_post_note_registry(user, note) ==
    [registry EXCEPT ![RegistryRow(user, note.uuid)] = @ + 1]

\* _update_note that stores what it is given, None included.
_update_note_overwrite(note, updated_note) ==
    [note EXCEPT !.updated_at = updated_note.updated_at,
                 !.title = updated_note.title,
                 !.body = updated_note.body]

\* _update_note that stores the row it is given in place of the stored one.
_update_note_merged(note, updated_note) ==
    NoteRow(updated_note.uuid,
            updated_note.created_at,
            updated_note.updated_at,
            IF updated_note.title # None THEN updated_note.title ELSE note.title,
            IF updated_note.body # None THEN updated_note.body ELSE note.body)

\* _update_note that assigns created_at where it should assign updated_at.
_update_note_created_at(note, updated_note) ==
    NoteRow(note.uuid,
            updated_note.updated_at,
            note.updated_at,
            IF updated_note.title # None THEN updated_note.title ELSE note.title,
            IF updated_note.body # None THEN updated_note.body ELSE note.body)

\* _update_note: the row after the update; a None title or body keeps
\* the stored value.
_update_note(note, updated_note) ==
    NoteRow(note.uuid,
            note.created_at,
            updated_note.updated_at,
            IF updated_note.title # None THEN updated_note.title ELSE note.title,
            IF updated_note.body # None THEN updated_note.body ELSE note.body)

\* _delete_note that leaves the registry row in place.
_delete_note_registry_kept(registry_note) == registry

\* _delete_note that leaves the note row in place.
_delete_note_notes_kept(note_id) == notes

\* _delete_note: the tables after the commit, registry_note being the
\* registry row that .first() returned.
_delete_note_notes(note_id) == [u \in DOMAIN notes \ {note_id} |-> notes[u]]
_delete_note_registry(registry_note) == [registry EXCEPT ![registry_note] = @ - 1]

\* ------------------------------------------------------ main.py handlers
\* x or "" in Python: None and the empty string both give the default.
py_or(x, default) == IF x = None \/ x = "" THEN default ELSE x

\* NoteBase.model_dump(exclude_unset=True): only the fields the request set.
model_dump_exclude_unset(new_data) ==
    [f \in {g \in {"title", "body"} : new_data[g] # None} |-> new_data[f]]

\* A copy that starts from the defaults instead of from the stored note.
model_copy_defaults(note, updated_data) ==
    [note EXCEPT !.title = IF "title" \in DOMAIN updated_data THEN updated_data["title"] ELSE "",
                 !.body = IF "body" \in DOMAIN updated_data THEN updated_data["body"] ELSE ""]

\* Note.model_copy(update=updated_data)
model_copy(note, updated_data) ==
    [note EXCEPT !.title = IF "title" \in DOMAIN updated_data THEN updated_data["title"] ELSE @,
                 !.body = IF "body" \in DOMAIN updated_data THEN updated_data["body"] ELSE @]

\* What a request body can carry for title and body: a string, or nothing.
Fields == Strings \cup {None}
\* The uploaded CSV files: rows with a title and a body column.
CsvRow == [title |-> "A", body |-> ""]
CsvFiles == {[i \in 1..n |-> CsvRow] : n \in 0..MaxRows}

\* The service as it starts, on a server whose local time is UTC + zone.
Start(zone) ==
    /\ users = <<>>
    /\ notes = <<>>
    /\ registry = [r \in Usernames \X UUIDs |-> 0]
    /\ session = "active"
    /\ now = 0
    /\ tz = zone
    /\ held = <<>>
    /\ resp = Response("start", 0, NoToken, None, None, NoReq, <<>>)
    /\ pending = [c \in Usernames |-> Idle]

Init == Start(0)
InitAuth == \E zone \in UTCOffsets : Start(zone)

\* Time passes between requests; the latest response is then history.
tick ==
    /\ now < MaxTime
    /\ now' = now + 1
    /\ resp' = Response("tick", 0, NoToken, None, None, NoReq, <<>>)
    /\ UNCHANGED <<users, notes, registry, session, tz, held, pending>>

\* POST /register/
register(username, password) ==
    LET hashed_password == get_hashed_password(password) IN
    /\ UNCHANGED <<notes, registry, now, tz, held>>
    /\ IF session # "active"
       THEN \* PendingRollbackError out of db.commit()
            /\ resp' = Response("register", 500, NoToken, username, None, NoReq, <<>>)
            /\ UNCHANGED <<users, session>>
       ELSE IF username \in DOMAIN users
       THEN \* IntegrityError out of db.commit(); nobody rolls back
            /\ resp' = Response("register", 500, NoToken, username, None, NoReq, <<>>)
            /\ session' = "inactive"
            /\ UNCHANGED users
       ELSE /\ users' = _create_user(username, hashed_password)
            /\ resp' = Response("register", 200, NoToken, username, None, NoReq, <<>>)
            /\ UNCHANGED session

\* POST /token
login_token(username, password) ==
    /\ UNCHANGED <<users, notes, registry, session, now, tz>>
    /\ IF session # "active"
       THEN /\ resp' = Response("login_token", 500, NoToken, username, None, NoReq, <<>>)
            /\ UNCHANGED held
       ELSE IF authenticate_user(username, password) = <<>>
       THEN /\ resp' = Response("login_token", 401, NoToken, username, None, NoReq, <<>>)
            /\ UNCHANGED held
       ELSE LET access_token ==
                    jwt_encode(username, datetime_now(now) + TOKEN_EXPIRE, SECRET_KEY)
            IN /\ held' = (username :> <<access_token, now>>) @@ held
               /\ resp' = Response("login_token", 200, NoToken, username, None, NoReq, <<>>)

\* upload_csv whose except clause passes instead of raising.
upload_csv_errors_passed(token, rows) ==
    LET auth == get_current_user(token) IN
    /\ UNCHANGED <<users, notes, registry, session, now, tz, held>>
    /\ IF auth.status # 200
       THEN resp' = Response("upload_csv", auth.status, token, None, None, NoReq, <<>>)
       ELSE resp' = Response("upload_csv", 201, token, auth.user, None, NoReq, <<>>)

\* POST /upload_csv.  Each row calls post_note(EditableNote(...)) with one
\* argument; post_note takes note_data and user, so the call raises
\* TypeError, which the bare except turns into a 401.
upload_csv(token, rows) ==
    LET auth == get_current_user(token) IN
    /\ UNCHANGED <<users, notes, registry, session, now, tz, held>>
    /\ IF auth.status # 200
       THEN resp' = Response("upload_csv", auth.status, token, None, None, NoReq, <<>>)
       ELSE IF Len(rows) = 0
       THEN resp' = Response("upload_csv", 201, token, auth.user, None, NoReq, <<>>)
       ELSE resp' = Response("upload_csv", 401, token, auth.user, None, NoReq, <<>>)

\* GET /notes/
get_all_notes(token) ==
    LET auth == get_current_user(token)
        found == _get_all_notes(auth.user)
    IN
    /\ UNCHANGED <<users, notes, registry, session, now, tz, held>>
    /\ IF auth.status # 200
       THEN resp' = Response("get_all_notes", auth.status, token, None, None, NoReq, <<>>)
       ELSE IF \E i \in 1..Len(found) : found[i] = <<>>
       THEN \* a None in the list fails response_model=list[Note]
            resp' = Response("get_all_notes", 500, token, auth.user, None, NoReq, <<>>)
       ELSE resp' = Response("get_all_notes", 200, token, auth.user, None, NoReq,
                             [i \in 1..Len(found) |-> found[i][1]])

\* GET /notes/{note_id}
get_note(token, note_id) ==
    LET auth == get_current_user(token)
        note == _get_note(note_id)
    IN
    /\ UNCHANGED <<users, notes, registry, session, now, tz, held>>
    /\ IF auth.status # 200
       THEN resp' = Response("get_note", auth.status, token, None, None, NoReq, <<>>)
       ELSE IF note # <<>>
       THEN resp' = Response("get_note", 200, token, auth.user, note_id, NoReq, note)
       ELSE resp' = Response("get_note", 404, token, auth.user, note_id, NoReq, <<>>)

\* POST /notes/.  uuid is what uuid4() returned; datetime.now() is read
\* twice, for created_at and then, at UTC time t2, for updated_at.
post_note(token, title, body, uuid, t2) ==
    LET auth == get_current_user(token)
        note_data == [title |-> title, body |-> body]
        note == NoteRow(uuid, datetime_now(now), datetime_now(t2),
                        py_or(note_data.title, ""), py_or(note_data.body, ""))
    IN
    /\ UNCHANGED <<users, tz, held>>
    /\ IF auth.status # 200
       THEN /\ resp' = Response("post_note", auth.status, token, None, None, NoReq, <<>>)
            /\ UNCHANGED <<notes, registry, session, now>>
       ELSE IF _get_note(uuid) # <<>>
       THEN \* primary key taken: IntegrityError out of db.commit()
            /\ now' = t2
            /\ resp' = Response("post_note", 500, token, auth.user, None, NoReq, <<>>)
            /\ session' = "inactive"
            /\ UNCHANGED <<notes, registry>>
       ELSE /\ now' = t2
            /\ notes' = _post_note_notes(note)
            /\ registry' = _post_note_registry(auth.user, note)
            /\ resp' = Response("post_note", 201, token, auth.user, uuid, note_data, <<note>>)
            /\ UNCHANGED session

\* PUT /notes/{note_id}.  Of the two readings of datetime.now() only the
\* one for updated_at is stored.
update_note(token, note_id, title, body) ==
    LET auth == get_current_user(token)
        updated_note_data == [title |-> title, body |-> body]
        updated_note == NoteRow(note_id, datetime_now(now), datetime_now(now),
                                updated_note_data.title, updated_note_data.body)
        note == _get_note(note_id)
    IN
    /\ UNCHANGED <<users, registry, session, now, tz, held>>
    /\ IF auth.status # 200
       THEN /\ resp' = Response("update_note", auth.status, token, None, None, NoReq, <<>>)
            /\ UNCHANGED notes
       ELSE IF note = <<>>
       THEN /\ resp' = Response("update_note", 404, token, auth.user, note_id, NoReq, <<>>)
            /\ UNCHANGED notes
       ELSE /\ notes' = [notes EXCEPT ![note_id] = _update_note(note[1], updated_note)]
            /\ resp' = Response("update_note", 200, token, auth.user, note_id, updated_note_data,
                                <<notes'[note_id]>>)

\* PATCH /notes/{note_id}
patch_note(token, note_id, title, body) ==
    LET auth == get_current_user(token)
        new_data == [title |-> title, body |-> body]
        note == _get_note(note_id)
        updated_data == model_dump_exclude_unset(new_data)
        updated_note == model_copy(note[1], updated_data)
    IN
    /\ UNCHANGED <<users, registry, session, now, tz, held>>
    /\ IF auth.status # 200
       THEN /\ resp' = Response("patch_note", auth.status, token, None, None, NoReq, <<>>)
            /\ UNCHANGED notes
       ELSE IF note = <<>>
       THEN \* note.__dict__ of None: AttributeError, an internal error
            /\ resp' = Response("patch_note", 500, token, auth.user, note_id, NoReq, <<>>)
            /\ UNCHANGED notes
       ELSE /\ notes' = [notes EXCEPT ![note_id] = _update_note(note[1], updated_note)]
            /\ resp' = Response("patch_note", 200, token, auth.user, note_id, new_data,
                                <<notes'[note_id]>>)

\* DELETE /notes/{note_id}
delete_note(token, note_id) ==
    LET auth == get_current_user(token) IN
    /\ UNCHANGED <<users, session, now, tz, held>>
    /\ IF auth.status # 200
       THEN /\ resp' = Response("delete_note", auth.status, token, None, None, NoReq, <<>>)
            /\ UNCHANGED <<notes, registry>>
       ELSE IF _get_note(note_id) = <<>>
       THEN /\ resp' = Response("delete_note", 404, token, auth.user, note_id, NoReq, <<>>)
            /\ UNCHANGED <<notes, registry>>
       ELSE IF RegistryRows(note_id) = {}
       THEN \* db.delete(None) raises before the commit
            /\ resp' = Response("delete_note", 500, token, auth.user, note_id, NoReq, <<>>)
            /\ UNCHANGED <<notes, registry>>
       ELSE \E registry_note \in RegistryRows(note_id) :
            /\ notes' = _delete_note_notes(note_id)
            /\ registry' = _delete_note_registry(registry_note)
            /\ resp' = Response("delete_note", 200, token, auth.user, note_id, NoReq, <<>>)

\* The UTC times of post_note's second reading of the clock.
SecondRead == now .. Min(now + 1, MaxTime)

\* uuid4(), drawn from U: a uuid that no stored row has.
uuid4(U) == {uuid \in U : uuid \notin DOMAIN notes /\ RegistryRows(uuid) = {}}

\* The values to try for an input of a request with the token: all of S,
\* or one of them when get_current_user refuses the request before the
\* handler looks at its inputs.
Inputs(token, S) ==
    IF get_current_user(token).status = 200 THEN S ELSE {CHOOSE x \in S : TRUE}

\* The requests of clients that register and log in with the passwords P,
\* send the values F as title and body and name the notes U.
Requests(P, F, U) ==
    \/ \E username \in Usernames, password \in P : register(username, password) /\ UNCHANGED pending
    \/ \E username \in Usernames, password \in P : login_token(username, password) /\ UNCHANGED pending
    \/ \E token \in Tokens : \E rows \in Inputs(token, CsvFiles) : upload_csv(token, rows) /\ UNCHANGED pending
    \/ \E token \in Tokens : get_all_notes(token) /\ UNCHANGED pending
    \/ \E token \in Tokens : \E note_id \in Inputs(token, U) : get_note(token, note_id) /\ UNCHANGED pending
    \/ \E token \in Tokens, uuid \in uuid4(U) :
       \E title \in Inputs(token, F), body \in Inputs(token, F),
          t2 \in Inputs(token, SecondRead) :
            post_note(token, title, body, uuid, t2) /\ UNCHANGED pending
    \/ \E token \in Tokens :
       \E note_id \in Inputs(token, U), title \in Inputs(token, F),
          body \in Inputs(token, F) :
            update_note(token, note_id, title, body) /\ UNCHANGED pending
    \/ \E token \in Tokens :
       \E note_id \in Inputs(token, U), title \in Inputs(token, F),
          body \in Inputs(token, F) :
            patch_note(token, note_id, title, body) /\ UNCHANGED pending
    \/ \E token \in Tokens : \E note_id \in Inputs(token, U) : delete_note(token, note_id) /\ UNCHANGED pending

\* The notes of users with one password each, on a server in UTC; each
\* request is handled as it arrives, and one note exists at a time.
Next == tick \/ Requests({"pw1"}, Fields, {"n1"})
Spec == Init /\ [][Next]_vars

\* Registration and login with every password, in every time zone, of
\* users whose notes carry no text.
NextAuth == tick \/ Requests(Passwords, {None}, {"n1"})
SpecAuth == InitAuth /\ [][NextAuth]_vars

\* ------------------------------------------------- concurrent requests
\* The handlers are coroutines on one event loop (uvicorn.run, one worker).
\* The server receives a request and reads its body while other requests
\* are handled; from the call of get_current_user to the return of the
\* handler there is no await, the store calls being synchronous, so the
\* loop runs that part of a request as one step.

\* The requests a client can have at the server: creating a note, and
\* deleting, fetching and listing.
InFlight ==
    {[op |-> "post_note", id |-> None], [op |-> "get_all_notes", id |-> None]}
      \cup [op : {"get_note", "delete_note"}, id : UUIDs]

\* Both users are registered and logged in, a state Spec reaches.
InitConc ==
    /\ users = [u \in Usernames |-> get_hashed_password("pw1")]
    /\ notes = <<>>
    /\ registry = [r \in Usernames \X UUIDs |-> 0]
    /\ session = "active"
    /\ now = 0
    /\ tz = 0
    /\ held = [u \in Usernames |->
                  <<jwt_encode(u, datetime_now(0) + TOKEN_EXPIRE, SECRET_KEY), 0>>]
    /\ resp = Response("login_token", 200, NoToken, "bob", None, NoReq, <<>>)
    /\ pending = [c \in Usernames |-> Idle]

\* The server receives a request of client c.
receive(c, request) ==
    /\ pending[c] = Idle
    /\ pending' = [pending EXCEPT ![c] = request]
    /\ UNCHANGED <<users, notes, registry, session, now, tz, held, resp>>

\* The event loop runs the handler of the request it received from c.
handle(c) ==
    LET token == held[c][1]
        request == pending[c]
    IN
    /\ request # Idle
    /\ pending' = [pending EXCEPT ![c] = Idle]
    /\ \/ /\ request.op = "post_note"
          /\ \E uuid \in uuid4(UUIDs) : post_note(token, None, None, uuid, now)
       \/ /\ request.op = "get_all_notes"
          /\ get_all_notes(token)
       \/ /\ request.op = "get_note"
          /\ get_note(token, request.id)
       \/ /\ request.op = "delete_note"
          /\ delete_note(token, request.id)

\* Requests of two clients, received in any order and handled in any order.
NextConc ==
    \/ \E c \in Usernames, request \in InFlight : receive(c, request)
    \/ \E c \in Usernames : handle(c)
SpecConc == InitConc /\ [][NextConc]_vars

\* ------------------------------------------------------------ two notes
\* Two logged-in users create empty notes, up to two at a time, and
\* replace, patch and delete their own and each other's.
NextFrame ==
    \/ tick
    \/ \E c \in Usernames, uuid \in uuid4(UUIDs) :
          post_note(held[c][1], None, None, uuid, now) /\ UNCHANGED pending
    \/ \E c \in Usernames, note_id \in UUIDs, title \in {None, "A"}, body \in {None, "A"} :
          update_note(held[c][1], note_id, title, body) /\ UNCHANGED pending
    \/ \E c \in Usernames, note_id \in UUIDs, title \in {None, "A"}, body \in {None, "A"} :
          patch_note(held[c][1], note_id, title, body) /\ UNCHANGED pending
    \/ \E c \in Usernames, note_id \in UUIDs :
          delete_note(held[c][1], note_id) /\ UNCHANGED pending
SpecFrame == InitConc /\ [][NextFrame]_vars

\* ---------------------------------------------------------- store drift
\* The service started over a database (create_all keeps the rows it
\* finds) in which alice is registered and the registry gives her the note
\* n2, of which the notes table has no row; no foreign key ties
\* registry.uuid to notes.uuid.
InitDrift ==
    /\ users = [u \in {"alice"} |-> get_hashed_password("pw1")]
    /\ notes = <<>>
    /\ registry = [r \in Usernames \X UUIDs |->
                      IF r = RegistryRow("alice", "n2") THEN 1 ELSE 0]
    /\ session = "active"
    /\ now = 0
    /\ tz = 0
    /\ held = <<>>
    /\ resp = Response("start", 0, NoToken, None, None, NoReq, <<>>)
    /\ pending = [c \in Usernames |-> Idle]

\* Requests of clients that know of no note but the ones they create.
NextDrift == tick \/ Requests({"pw1"}, {None, "A"}, {"n1"})
SpecDrift == InitDrift /\ [][NextDrift]_vars

\* ------------------------------------------------------------------ claims
\* The handlers that depend on get_current_user.
AuthOps == {"upload_csv", "get_all_notes", "get_note", "post_note", "update_note",
            "patch_note", "delete_note"}
\* The handlers that change a note that exists.
MutatingOps == {"update_note", "patch_note", "delete_note"}

\* The owners the registry records for a note, and the number of its rows.
Owners(id) == {u \in Usernames : registry[RegistryRow(u, id)] > 0}
RECURSIVE SumRows(_, _)
SumRows(id, U) ==
    IF U = {} THEN 0
    ELSE LET u == CHOOSE x \in U : TRUE
         IN registry[RegistryRow(u, id)] + SumRows(id, U \ {u})

\* A token validates when a login issued it to a registered user and its
\* expiry is not in the past.
IssuedFor(token, u) == u \in DOMAIN held /\ held[u][1] = token
Validates(token) ==
    \E u \in DOMAIN users : IssuedFor(token, u) /\ token.exp >= now

\* C1: every note row has exactly one registry row, and every registry row
\* names a note row that exists.
C1_OwnershipPaired ==
    /\ \A id \in DOMAIN notes : SumRows(id, Usernames) = 1
    /\ \A r \in DOMAIN registry : registry[r] > 0 => r[2] \in DOMAIN notes

\* A note was created and then deleted.
C1_Witness == resp.op = "delete_note" /\ resp.status = 200 /\ notes = <<>>

\* C2: a replace, patch or delete by a user who is not the note's owner
\* changes neither the note nor its registry row.
C2_OnlyCreatorMutates ==
    [][(/\ resp'.op \in MutatingOps
        /\ resp'.user # None
        /\ resp'.id \in DOMAIN notes
        /\ resp'.user \notin Owners(resp'.id))
           => (notes' = notes /\ registry' = registry)]_vars

\* C3: the list a user gets holds exactly the notes that exist and that the
\* registry gives to that user, each once; and a note that was just created
\* is given to the user who created it and to nobody else.
C3_ListIsOwn ==
    /\ (resp.op = "get_all_notes" /\ resp.status = 200) =>
          /\ {resp.out[i].uuid : i \in 1..Len(resp.out)}
                = {id \in DOMAIN notes : resp.user \in Owners(id)}
          /\ Len(resp.out) = Cardinality({id \in DOMAIN notes : resp.user \in Owners(id)})
          /\ \A i \in 1..Len(resp.out) : resp.out[i] = notes[resp.out[i].uuid]
    /\ (resp.op = "post_note" /\ resp.status = 201) => Owners(resp.id) = {resp.user}

\* A user listed their notes and got the one they had created.
C3_Witness ==
    /\ resp.op = "get_all_notes" /\ resp.status = 200
    /\ Len(resp.out) = 1
    /\ Cardinality(DOMAIN users) = 2

\* C4: a request is handled for user u only when its token was issued by a
\* login of u and the time is at most 15 minutes past that login.
C4_TokenSound ==
    [][(resp'.op \in AuthOps /\ resp'.user # None) =>
          /\ IssuedFor(resp'.token, resp'.user)
          /\ now <= held[resp'.user][2] + TOKEN_EXPIRE]_vars

\* C5: a request with a token that does not validate, to any handler other
\* than register and login, is answered 401 and changes no user, note or
\* registry row.
C5_Unauthenticated ==
    [][(resp'.op \in AuthOps /\ ~Validates(resp'.token)) =>
          (resp'.status = 401 /\ UNCHANGED <<users, notes, registry>>)]_vars

\* A delete with an expired token was refused while a note existed.
C5_Witness ==
    /\ resp.op = "delete_note" /\ resp.status = 401
    /\ resp.token.key = SECRET_KEY /\ resp.token.exp < now
    /\ notes # <<>>

\* C6: registering a username that is registered is answered with a 4xx
\* status and leaves the users as they were.
C6_DuplicateUser ==
    [][(resp'.op = "register" /\ resp'.user \in DOMAIN users) =>
          (resp'.status \in 400..499 /\ users' = users)]_vars

\* C7: an upload of n >= 1 valid rows by an authenticated user is answered
\* 201 and creates n notes, each owned by that user.
C7_BulkImport ==
    [][(resp'.op = "upload_csv" /\ resp'.user # None) =>
          \A token \in Tokens, rows \in CsvFiles :
              (Len(rows) >= 1 /\ upload_csv(token, rows)) =>
                  /\ resp'.status = 201
                  /\ Cardinality(DOMAIN notes' \ DOMAIN notes) = Len(rows)
                  /\ \A id \in DOMAIN notes' \ DOMAIN notes :
                        /\ \E i \in 1..Len(rows) :
                              /\ notes'[id].title = rows[i].title
                              /\ notes'[id].body = rows[i].body
                        /\ registry'[RegistryRow(resp'.user, id)] = 1]_vars

\* C8: right after a note is created, the note stored under its id (what a
\* fetch by id returns) has the title and body that were sent, the empty
\* string for one that was not sent, and created_at = updated_at.
C8_CreateThenFetch ==
    (resp.op = "post_note" /\ resp.status = 201) =>
        /\ _get_note(resp.id) = resp.out
        /\ resp.out[1].title = (IF resp.req.title = None THEN "" ELSE resp.req.title)
        /\ resp.out[1].body = (IF resp.req.body = None THEN "" ELSE resp.req.body)
        /\ resp.out[1].created_at = resp.out[1].updated_at

C10_Patch ==
    [][(resp'.op = "patch_note" /\ resp'.status = 200) =>
          LET old == notes[resp'.id]
              new == notes'[resp'.id]
              req == resp'.req
          IN /\ new.title = (IF req.title = None THEN old.title ELSE req.title)
             /\ new.body = (IF req.body = None THEN old.body ELSE req.body)
             /\ resp'.out = <<new>>]_vars

\* A patch that sent only a body, the empty one, kept the title "A".
C10_Witness ==
    /\ resp.op = "patch_note" /\ resp.status = 200
    /\ resp.req.title = None /\ resp.req.body = ""
    /\ resp.out[1].title = "A" /\ resp.out[1].body = ""

\* C11: after a replace or a patch that succeeds, the note's updated_at is
\* the time at which the request was handled.
C11_UpdatedAtRefreshed ==
    [][(resp'.op \in {"update_note", "patch_note"} /\ resp'.status = 200) =>
          notes'[resp'.id].updated_at = datetime_now(now)]_vars

\* The handlers that look up one note by its id.
ByIdOps == {"get_note", "update_note", "patch_note", "delete_note"}

\* C12: a get, replace, patch or delete, by an authenticated user, of an id
\* that no note has is answered 404 and changes no note and no registry row.
C12_NotFound ==
    [][(/\ resp'.op \in ByIdOps
        /\ resp'.user # None
        /\ resp'.id \notin DOMAIN notes) =>
          (resp'.status = 404 /\ notes' = notes /\ registry' = registry)]_vars

\* C13: a delete that succeeds removes the note and its registry row, and
\* the request that follows it with a valid token gets: 404 for a fetch of
\* that id, a list without that id, and 404 with no note and no registry
\* row changed for a second delete of that id.
C13_DeleteThenGone ==
    [][/\ (resp'.op = "delete_note" /\ resp'.status = 200) =>
              /\ resp'.id \notin DOMAIN notes'
              /\ \A u \in Usernames : registry'[RegistryRow(u, resp'.id)] = 0
       /\ (resp.op = "delete_note" /\ resp.status = 200 /\ Validates(resp'.token)) =>
              /\ (resp'.op = "get_note" /\ resp'.id = resp.id) => resp'.status = 404
              /\ resp'.op = "get_all_notes" =>
                    /\ resp'.status = 200
                    /\ \A i \in 1..Len(resp'.out) : resp'.out[i].uuid # resp.id
              /\ (resp'.op = "delete_note" /\ resp'.id = resp.id) =>
                    (resp'.status = 404 /\ notes' = notes /\ registry' = registry)]_vars

\* A note was deleted by a user whose token is still valid, so that a fetch,
\* a list and a second delete can follow.
C13_Witness ==
    /\ resp.op = "delete_note" /\ resp.status = 200
    /\ _get_note(resp.id) = <<>> /\ Owners(resp.id) = {}
    /\ Validates(resp.token)
    /\ Cardinality(DOMAIN users) = 2

\* C14: every stored note has updated_at >= created_at.
C14_UpdatedNotBeforeCreated ==
    \A id \in DOMAIN notes : notes[id].updated_at >= notes[id].created_at

\* A note was replaced after the clock had moved on from its creation, and
\* then patched.
C14_Witness ==
    /\ resp.op = "patch_note" /\ resp.status = 200
    /\ notes[resp.id].updated_at > notes[resp.id].created_at
    /\ now > notes[resp.id].updated_at

\* C15: a login for a username that is not registered and a login for a
\* registered username with a wrong password are both answered 401, and
\* neither issues a token.
C15_LoginIndistinct ==
    [][resp'.op = "login_token" =>
          \A username \in Usernames, password \in Passwords :
              (/\ login_token(username, password)
               /\ \/ username \notin DOMAIN users
                  \/ ~verify_password(password, users[username])) =>
                    (resp'.status = 401 /\ held' = held)]_vars

\* C16: however the requests of two clients are interleaved, a note row and
\* its registry row exist together or not at all, and no create, delete,
\* fetch or list meets one without the other: none fails on a missing row,
\* and a list holds only notes that exist and belong to the caller.
C16_AtomicPairs ==
    /\ \A id \in UUIDs :
          SumRows(id, Usernames) = (IF id \in DOMAIN notes THEN 1 ELSE 0)
    /\ resp.op \in {"post_note", "get_all_notes", "get_note", "delete_note"} =>
          resp.status \in {200, 201, 404}
    /\ (resp.op = "get_all_notes" /\ resp.status = 200) =>
          \A i \in 1..Len(resp.out) :
              /\ _get_note(resp.out[i].uuid) = <<resp.out[i]>>
              /\ Owners(resp.out[i].uuid) = {resp.user}

\* A delete was handled while another client's delete of the same note was
\* waiting at the server.
C16_Witness ==
    /\ resp.op = "delete_note" /\ resp.status = 200
    /\ \E c \in Usernames \ {resp.user} : pending[c] = [op |-> "delete_note", id |-> resp.id]
    /\ notes # <<>>

\* C17: an upload, by an authenticated user, of a file with a row that
\* fails (every row does: the call that creates its note raises) is answered
\* with an error status, and the notes it creates are those of the k rows
\* before the failing one, for some k that may be 0, each owned by that user.
C17_BulkImportPrefix ==
    [][(resp'.op = "upload_csv" /\ resp'.user # None) =>
          \A token \in Tokens, rows \in CsvFiles :
              (Len(rows) >= 1 /\ upload_csv(token, rows)) =>
                  /\ resp'.status \in 400..599
                  /\ \A id \in DOMAIN notes : notes'[id] = notes[id]
                  /\ \E k \in 0..(Len(rows) - 1) :
                        /\ Cardinality(DOMAIN notes' \ DOMAIN notes) = k
                        /\ \A id \in DOMAIN notes' \ DOMAIN notes :
                              /\ \E i \in 1..k :
                                    /\ notes'[id].title = rows[i].title
                                    /\ notes'[id].body = rows[i].body
                              /\ registry'[RegistryRow(resp'.user, id)] = 1]_vars

\* An upload of a file with rows was answered with an error while the user
\* had a note.
C17_Witness ==
    /\ resp.op = "upload_csv" /\ resp.status = 401
    /\ resp.user # None /\ resp.user \in Owners("n1")

\* C18: when the registry gives a user an id that has no note row, the list
\* of that user succeeds and holds exactly the notes that exist among the
\* ids the registry gives the user, each once.
C18_ListSkipsMissing ==
    [][(/\ resp'.op = "get_all_notes"
        /\ resp'.user # None
        /\ \E id \in UUIDs : resp'.user \in Owners(id) /\ id \notin DOMAIN notes) =>
          /\ resp'.status = 200
          /\ Len(resp'.out) = Cardinality({id \in DOMAIN notes : resp'.user \in Owners(id)})
          /\ \A id \in DOMAIN notes : resp'.user \in Owners(id) =>
                \E i \in 1..Len(resp'.out) : resp'.out[i] = notes[id]]_vars

\* C19: a replace or a patch that succeeds leaves the note's uuid and
\* created_at, every other note, every registry row and every user as they
\* were; and no step changes the owners of a note that exists before and
\* after it.
C19_Frame ==
    [][/\ (resp'.op \in {"update_note", "patch_note"} /\ resp'.status = 200) =>
              /\ DOMAIN notes' = DOMAIN notes
              /\ notes'[resp'.id].uuid = notes[resp'.id].uuid
              /\ notes'[resp'.id].created_at = notes[resp'.id].created_at
              /\ \A other \in DOMAIN notes \ {resp'.id} : notes'[other] = notes[other]
              /\ registry' = registry
              /\ users' = users
       /\ \A id \in DOMAIN notes \cap DOMAIN notes' : Owners(id)' = Owners(id)]_vars

\* With two notes stored, a user replaced a note of the other user some
\* time after it was created.
C19_Witness ==
    /\ resp.op = "update_note" /\ resp.status = 200
    /\ Cardinality(DOMAIN notes) = 2
    /\ Owners(resp.id) # {} /\ resp.user \notin Owners(resp.id)
    /\ notes[resp.id].updated_at > notes[resp.id].created_at

\* C20: a request that ends in an error (a registration of a registered
\* username, a patch of an id that no note has, an upload that fails) leaves
\* the store, the shared session and the tokens as they were, so that every
\* later request is handled as if the failed one had not been made.
C20_FailureContained ==
    [][(resp'.op \in {"register", "patch_note", "upload_csv"} /\ resp'.status >= 400) =>
          UNCHANGED <<users, notes, registry, session, held>>]_vars

====
